---- MODULE Spec2Model ----
(***************************************************************************)
(* A model of qiime2.sdk.context.Context: the memoizing execution context  *)
(* (root and child construction, the dispatcher returned by get_action,    *)
(* the output reconstructor _load_cache and reference registration).       *)
(* The cache, its pools, the action signature and _bind/_bind_parsl live   *)
(* outside context.py and are modelled from their documented interfaces.   *)
(***************************************************************************)
EXTENDS Integers, Sequences, FiniteSets, TLC

\* ------------------------------------------------------------------ bounds
\* Number of invocations of a dispatcher handle in one behaviour.
MaxCalls == 2
\* Number of root contexts constructed against the one cache.
MaxRoots == 2
\* Number of out-of-band removals from the named pool's storage.
MaxEvict == 1
\* Number of operations begun in one behaviour, all kinds together: root
\* constructions, invocations, out-of-band removals, failures of a save or of
\* an index build, and
\* direct constructions of a child, each of which counts for two.
MaxOps == 4
\* The same number in the behaviours examined for progress.
MaxLiveOps == 3
\* Number of child contexts constructed by a direct call of the constructor
\* (by the task executor's app, say) rather than by the dispatcher's factory.
MaxChildren == 1
\* Largest declared total (and number of positions) of a collection record
\* handed to the reconstructor on its own.
MaxTotal == 3

\* ------------------------------------------------------------- the action
\* Names are sequences of characters.  Lines 48-49: every '_' of the plugin
\* name becomes '-', and the qualified name is plugin + ':' + action.
replace(plugin) ==
  [i \in DOMAIN plugin |-> IF plugin[i] = "_" THEN "-" ELSE plugin[i]]

PluginAction(plugin, action) == replace(plugin) \o <<":">> \o action

\* The one action the dispatcher of this model is made for.
plugin_action == PluginAction(<<"p">>, <<"a">>)

\* Its declared parameters, in declaration order.
Params == <<"x">>

\* signature.outputs: the declared outputs in order, and which of them are
\* collections (is_collection_type).
Outputs == <<"o1", "o2">>

is_collection_type(name) == name = "o2"

\* ------------------------------------------------------------ arguments
\* An argument is a concrete value or a proxy standing for a value that is
\* not computed yet.
Concrete(v) == [proxy |-> FALSE, v |-> v]

Proxy(v) == [proxy |-> TRUE, v |-> v]

ArgValues == {Concrete(1), Concrete(2), Proxy(1)}

\* What a proxy resolves to when the action finally runs.
Resolve(a) == Concrete(a.v)

\* A call supplies positional arguments and keyword arguments; kwargs is,
\* like a Python dict, the sequence of <<name, value>> items in the order the
\* caller wrote them, no name twice.  At most one argument here, so that an
\* unbound parameter occurs as well.
CallInputs ==
  { c \in [args : {<<>>} \cup {<<a>> : a \in ArgValues},
           kwargs : {<<>>} \cup {<< <<"x", a>> >> : a \in ArgValues}] :
      Len(c.args) + Len(c.kwargs) <= 1 }

\* The names and the values of a dict given as its items.
keys(items) == {items[k][1] : k \in DOMAIN items}

values(items) == {items[k][2] : k \in DOMAIN items}

\* items[name]
Get(items, name) == items[CHOOSE k \in DOMAIN items : items[k][1] = name][2]

\* _contains_proxies: a proxy among the positional or the keyword values.
ContainsProxiesArgsOnly(args, kwargs) ==
  \E i \in DOMAIN args : args[i].proxy

_contains_proxies(args, kwargs) ==
  \/ \E i \in DOMAIN args : args[i].proxy
  \/ \E value \in values(kwargs) : value.proxy

\* signature.collate_inputs: positional arguments bind the declared
\* parameters in order, keywords bind the rest; a surplus, a double binding,
\* an unknown keyword or an unbound parameter is a TypeError.
ParamSet(params) == {params[i] : i \in DOMAIN params}

CollateOk(params, args, kwargs) ==
  /\ Len(args) <= Len(params)
  /\ keys(kwargs) \subseteq ParamSet(params)
  /\ \A i \in 1..Len(args) : params[i] \notin keys(kwargs)
  /\ \A i \in (Len(args) + 1)..Len(params) : params[i] \in keys(kwargs)

\* The collated dict: the positional bindings first, then the keywords in
\* the caller's order.
collate_inputs(params, args, kwargs) ==
  [i \in 1..Len(args) |-> <<params[i], args[i]>>] \o kwargs

\* signature.coerce_user_input: the bindings as a dict filled in
\* declaration order; the values of this model are already primitives.
CoerceInCallerOrder(params, collated) == collated

coerce_user_input(params, collated) ==
  [i \in DOMAIN params |-> <<params[i], Get(collated, params[i])>>]

\* Lines 89-93: the list of single-key bindings, paired with the qualified
\* action name (HashableInvocation compares both by value).
HashableInvocation(name, arguments) == <<name, arguments>>

InvocationFor(name, params, args, kwargs) ==
  LET callable_args == coerce_user_input(params, collate_inputs(params, args, kwargs))
      arguments == [i \in DOMAIN callable_args |-> callable_args[i]]
  IN HashableInvocation(name, arguments)

InvocationOf(params, args, kwargs) ==
  InvocationFor(plugin_action, params, args, kwargs)

\* The invocation an execution records in the provenance of what it makes:
\* the call with its proxies resolved.
ResolvedInvocation(args, kwargs) ==
  InvocationOf(Params, [i \in DOMAIN args |-> Resolve(args[i])],
               [k \in DOMAIN kwargs |-> <<kwargs[k][1], Resolve(kwargs[k][2])>>])

\* -------------------------------------------------------------- artifacts
\* An element descriptor of a cached collection: item name, position index
\* and the declared total of the collection.
Descriptor(n, i, t) == [item_name |-> n, idx |-> i, total |-> t]

NoElem == Descriptor("", 0, 0)

\* A stored resource: `run` tells the execution that made it (0: an earlier
\* process run), the rest is its provenance.
Artifact(r, inv, out, d) == [run |-> r, key |-> inv, out |-> out, elem |-> d]

\* What one execution of the action makes for an invocation: the scalar o1
\* and the two elements of collection o2.
ExecArtifacts(r, inv) ==
  << Artifact(r, inv, "o1", NoElem),
     Artifact(r, inv, "o2", Descriptor("a", 0, 2)),
     Artifact(r, inv, "o2", Descriptor("b", 1, 2)) >>

\* The value of a stored resource: what it holds, whoever stored it.
ValueOf(a) == [key |-> a.key, out |-> a.out, elem |-> a.elem]

Range(s) == {s[i] : i \in DOMAIN s}

\* ---------------------------------------------------------- reconstructor
\* The outcome of a step that may raise: kind "ok" or the exception's class;
\* `at` tells a KeyError raised by the pool's load from one raised by a
\* lookup in the cached record (both are KeyError to the caller).
Raised(kind, at, loads) ==
  [kind |-> kind, at |-> at, outputs |-> <<>>, loads |-> loads]

\* _validate_collection (lines 171-177): both assertions, in order; the
\* second reads collection_order[0], an IndexError on an empty list.
ValidateTotalsOnly(collection_order) ==
  IF \E i \in DOMAIN collection_order :
       collection_order[i].total # collection_order[1].total
  THEN "AssertionError"
  ELSE "ok"

_validate_collection(collection_order) ==
  IF \E i \in DOMAIN collection_order :
       collection_order[i].total # collection_order[1].total
  THEN "AssertionError"
  ELSE IF collection_order = <<>>
  THEN "IndexError"
  ELSE IF Len(collection_order) # collection_order[1].total
  THEN "AssertionError"
  ELSE "ok"

\* list.sort(key=lambda x: x.idx) (line 147): a stable sort, so descriptors
\* with equal idx keep the order the list had.
RECURSIVE InsertByIdx(_, _)
InsertByIdx(sorted, d) ==
  IF sorted = <<>> THEN <<d>>
  ELSE IF sorted[Len(sorted)].idx <= d.idx THEN Append(sorted, d)
  ELSE Append(InsertByIdx(SubSeq(sorted, 1, Len(sorted) - 1), d),
              sorted[Len(sorted)])

RECURSIVE SortByIdxFrom(_, _, _)
SortByIdxFrom(sorted, order, n) ==
  IF n > Len(order) THEN sorted
  ELSE SortByIdxFrom(InsertByIdx(sorted, order[n]), order, n + 1)

Unsorted(collection_order) == collection_order

SortByIdx(collection_order) == SortByIdxFrom(<<>>, collection_order, 1)

\* loaded_collection[item_name] = loaded_elem (lines 152-153) on an
\* insertion-ordered mapping: a new name is appended, a name already there
\* keeps its place and takes the new value.
SetItem(coll, name, value) ==
  IF \E i \in DOMAIN coll : coll[i][1] = name
  THEN [i \in DOMAIN coll |-> IF coll[i][1] = name THEN <<name, value>> ELSE coll[i]]
  ELSE Append(coll, <<name, value>>)

\* named_pool.load(ref): the stored resource, or KeyError when its backing
\* storage is gone.
CanLoad(present, ref) == ref \in present

\* Lines 149-153: load the elements in the given order; stop at the first
\* load that raises.
RECURSIVE LoadElems(_, _, _, _, _, _)
LoadElems(cached_collection, present, order, n, coll, loads) ==
  IF n > Len(order) THEN [kind |-> "ok", at |-> "", outputs |-> coll, loads |-> loads]
  ELSE LET elem == cached_collection[order[n]]
       IN IF ~CanLoad(present, elem)
          THEN Raised("KeyError", "load", Append(loads, elem))
          ELSE LoadElems(cached_collection, present, order, n + 1,
                         SetItem(coll, order[n].item_name, elem),
                         Append(loads, elem))

\* Lines 141-155 for one collection output; collection_order is
\* list(cached_collection.keys()), the mapping's iteration order.
LoadCollection(cached_collection, present, collection_order, loads) ==
  LET v == _validate_collection(collection_order)
  IN IF v # "ok" THEN Raised(v, "validate", loads)
     ELSE LoadElems(cached_collection, present, SortByIdx(collection_order),
                    1, <<>>, loads)

\* _load_cache (lines 133-162): the declared outputs in order; a name the
\* record lacks is a KeyError of the lookup (lines 142, 157).  `orders`
\* gives, per collection output, the iteration order of its descriptors.
RECURSIVE LoadOutputs(_, _, _, _, _, _)
LoadOutputs(cached_outputs, present, orders, n, loaded_outputs, loads) ==
  IF n > Len(Outputs)
  THEN [kind |-> "ok", at |-> "", outputs |-> loaded_outputs, loads |-> loads]
  ELSE LET name == Outputs[n]
       IN IF name \notin DOMAIN cached_outputs
          THEN Raised("KeyError", "record", loads)
          ELSE IF is_collection_type(name)
          THEN LET r == LoadCollection(cached_outputs[name], present,
                                       orders[name], loads)
               IN IF r.kind # "ok" THEN r
                  ELSE LoadOutputs(cached_outputs, present, orders, n + 1,
                                   Append(loaded_outputs, <<name, r.outputs>>),
                                   r.loads)
          ELSE IF ~CanLoad(present, cached_outputs[name])
          THEN Raised("KeyError", "load", Append(loads, cached_outputs[name]))
          ELSE LoadOutputs(cached_outputs, present, orders, n + 1,
                           Append(loaded_outputs, <<name, cached_outputs[name]>>),
                           Append(loads, cached_outputs[name]))

_load_cache(cached_outputs, present, orders) ==
  LoadOutputs(cached_outputs, present, orders, 1, <<>>, <<>>)

\* Every order in which a set of descriptors can be iterated.
Perms(S) ==
  { q \in [1..Cardinality(S) -> S] : \A i, j \in DOMAIN q : i # j => q[i] # q[j] }

\* The iteration orders of a record: one per collection output it holds.
CollectionNames(cached_outputs) ==
  { name \in DOMAIN cached_outputs : is_collection_type(name) }

KeyOrders(cached_outputs) ==
  { o \in [CollectionNames(cached_outputs) ->
             UNION { Perms(DOMAIN cached_outputs[name]) :
                       name \in CollectionNames(cached_outputs) }] :
      \A name \in DOMAIN o : o[name] \in Perms(DOMAIN cached_outputs[name]) }

\* ------------------------------------------------------------------ state
VARIABLES
  hasNamed,      \* cache.named_pool is not None
  pool,          \* the named pool's backing storage: the resources it holds
  index,         \* named_pool.index: invocation -> record of its outputs
  indexBuilds,   \* how many times named_pool.create_index() has run
  process_pool,  \* the resources saved into the process pool
  lock,          \* cache.lock: <<"free", 0>>, <<"root", 0>> or <<"call", i>>
  contexts,      \* the Context objects constructed so far, by identity
  ctor,          \* a root construction inside its `with self.cache.lock`,
                 \* and how many constructions create_index() has failed
  calls,         \* the invocations of the dispatcher handle
  evictions,     \* how many resources were removed out of band
  ld,            \* a reconstruction on its own: its input and its outcome
  ga             \* get_action on its own: two requests, their handles and keys

vars == <<hasNamed, pool, index, indexBuilds, process_pool, lock, contexts,
          ctor, calls, evictions, ld, ga>>

Slots == 1..MaxCalls

Free == <<"free", 0>>

NoCtor == [active |-> FALSE, parallel |-> FALSE, failures |-> 0]

NoGet == [phase |-> "none", reqs |-> <<>>, handles |-> <<>>, keys |-> <<>>]

\* A reference to resources, and who holds their data: the action that
\* made them or the process pool.
Ref(resources, holder) == [resources |-> resources, holder |-> holder]

NoRef == Ref({}, "")

NoLoad == [phase |-> "none", record |-> <<>>, present |-> {}, orders |-> <<>>,
           out |-> Raised("", "", <<>>)]

\* The invocation whose outputs an earlier process run left in the named
\* pool.
PriorInvocation == ResolvedInvocation(<<Concrete(1)>>, <<>>)

PriorArtifacts == Range(ExecArtifacts(0, PriorInvocation))

\* ------------------------------------------------------- pool interface
\* named_pool.create_index(): one record per invocation found in the
\* provenance of the stored resources; a scalar output maps to its resource,
\* a collection output to a mapping from element descriptor to resource.
\* Of several resources with the same provenance the newest is indexed.
Newest(S) == CHOOSE a \in S : \A b \in S : b.run <= a.run

create_index(stored) ==
  [k \in {a.key : a \in stored} |->
    [o \in {a.out : a \in {b \in stored : b.key = k}} |->
       IF is_collection_type(o)
       THEN [d \in {a.elem : a \in {b \in stored : b.key = k /\ b.out = o}} |->
               Newest({b \in stored : b.key = k /\ b.out = o /\ b.elem = d})]
       ELSE Newest({b \in stored : b.key = k /\ b.out = o})]]

\* ---------------------------------------------------------------- contexts
\* Context.__init__ (lines 17-41), the attributes it sets.  A child copies
\* its parent's and ignores its own `parallel`; a root reads the process-wide
\* configuration and get_cache().  `parallel_arg` is the argument the
\* constructor was given, which the object does not keep.
NewContextOwnParallel(parent, parallel) ==
  IF parent # 0
  THEN [parent |-> parent,
        action_executor_mapping |-> contexts[parent].action_executor_mapping,
        executor_name_type_mapping |-> contexts[parent].executor_name_type_mapping,
        parallel |-> parallel,
        cache |-> contexts[parent].cache,
        parallel_arg |-> parallel]
  ELSE [parent |-> 0,
        action_executor_mapping |-> "PARALLEL_CONFIG.action_executor_mapping",
        executor_name_type_mapping |-> "PARALLEL_CONFIG.executors",
        parallel |-> parallel,
        cache |-> "get_cache()",
        parallel_arg |-> parallel]

NewContext(parent, parallel) ==
  IF parent # 0
  THEN [parent |-> parent,
        action_executor_mapping |-> contexts[parent].action_executor_mapping,
        executor_name_type_mapping |-> contexts[parent].executor_name_type_mapping,
        parallel |-> contexts[parent].parallel,
        cache |-> contexts[parent].cache,
        parallel_arg |-> parallel]
  ELSE [parent |-> 0,
        action_executor_mapping |-> "PARALLEL_CONFIG.action_executor_mapping",
        executor_name_type_mapping |-> "PARALLEL_CONFIG.executors",
        parallel |-> parallel,
        cache |-> "get_cache()",
        parallel_arg |-> parallel]

Roots == {c \in DOMAIN contexts : contexts[c].parent = 0}

\* The children constructed by a direct call of the constructor.
Constructed ==
  {c \in DOMAIN contexts :
     contexts[c].parent # 0 /\ \A i \in Slots : calls[i].child # c}

\* The operations begun so far; a direct construction of a child counts
\* for two.
Ops ==
  Cardinality(Roots) + (IF ctor.active THEN 1 ELSE 0)
    + Cardinality({i \in Slots : calls[i].pc # "idle"}) + evictions
    + 2 * Cardinality(Constructed)
    + Cardinality({i \in Slots : calls[i].error = "SaveError"})
    + ctor.failures

Init ==
  /\ hasNamed \in BOOLEAN
  /\ pool = IF hasNamed THEN PriorArtifacts ELSE {}
  /\ index = <<>>
  /\ indexBuilds = 0
  /\ process_pool = {}
  /\ lock = Free
  /\ contexts = <<>>
  /\ ctor = NoCtor
  /\ calls = [i \in Slots |->
               [pc |-> "idle", ctx |-> 0, args |-> <<>>, kwargs |-> <<>>,
                probed |-> FALSE, intact |-> FALSE, cache |-> "none", at |-> "",
                result |-> <<>>, error |-> "", hits |-> 0, execs |-> 0,
                child |-> 0, bound |-> 0, regs |-> 0,
                named_saved |-> NoRef, new_ref |-> NoRef]]
  /\ evictions = 0
  /\ ld = NoLoad
  /\ ga = NoGet

\* Context(parallel=...) with no parent, lines 23-37: the attributes are
\* set and the cache lock is taken.
BeginRoot(parallel) ==
  /\ ~ctor.active
  /\ Cardinality(Roots) < MaxRoots
  /\ Ops < MaxOps
  /\ lock = Free
  /\ lock' = <<"root", 0>>
  /\ ctor' = [ctor EXCEPT !.active = TRUE, !.parallel = parallel]
  /\ UNCHANGED <<hasNamed, pool, index, indexBuilds, process_pool, contexts,
                 calls, evictions, ld, ga>>

\* named_pool.create_index() as line 39 calls it on a pool that may already
\* carry an index: the index is replaced by the one built from what the pool
\* stores now, whatever it held before.
IndexEmptiedWhenRebuilt(index_before, stored) ==
  IF DOMAIN index_before # {} THEN <<>> ELSE create_index(stored)

Reindexed(index_before, stored) == create_index(stored)

\* Lines 38-41: under the lock the named pool, if there is one, is indexed;
\* the lock is released and the context exists.
FinishRoot ==
  /\ ctor.active
  /\ lock = <<"root", 0>>
  /\ IF hasNamed
     THEN /\ index' = Reindexed(index, pool)
          /\ indexBuilds' = indexBuilds + 1
     ELSE UNCHANGED <<index, indexBuilds>>
  /\ lock' = Free
  /\ contexts' = Append(contexts, NewContext(0, ctor.parallel))
  /\ ctor' = [ctor EXCEPT !.active = FALSE, !.parallel = FALSE]
  /\ UNCHANGED <<hasNamed, pool, process_pool, calls, evictions, ld, ga>>

\* Line 39 raises: the `with` releases the lock and the error leaves the
\* constructor, so no context comes to exist.  The index is taken to be as
\* it was.
FinishRootFails ==
  /\ ctor.active
  /\ lock = <<"root", 0>>
  /\ hasNamed
  /\ lock' = Free
  /\ ctor' = [ctor EXCEPT !.active = FALSE, !.parallel = FALSE,
                          !.failures = ctor.failures + 1]
  /\ UNCHANGED <<hasNamed, pool, index, indexBuilds, process_pool, contexts,
                 calls, evictions, ld, ga>>

\* Context(parent=..., parallel=...), lines 18-22 and 41: the parent's
\* attributes are copied; no lock, no get_cache(), no index.
ConstructChild(parent, parallel) ==
  /\ parent \in DOMAIN contexts
  /\ Cardinality(Constructed) < MaxChildren
  /\ Ops + 2 <= MaxOps
  /\ contexts' = Append(contexts, NewContext(parent, parallel))
  /\ UNCHANGED <<hasNamed, pool, index, indexBuilds, process_pool, lock,
                 ctor, calls, evictions, ld, ga>>

\* -------------------------------------------------------------- dispatcher
\* The handle returned by get_action is called on context c (deferred_action,
\* line 66) and enters `with self.cache.lock` (line 77), which blocks while
\* the lock is held.  Calls are numbered in the order they are made.
Invoke(i, c, in) ==
  /\ calls[i].pc = "idle"
  /\ \A j \in Slots : j < i => calls[j].pc # "idle"
  /\ c \in DOMAIN contexts
  /\ Ops < MaxOps
  /\ lock = Free
  /\ lock' = <<"call", i>>
  /\ calls' = [calls EXCEPT ![i].pc = "locked", ![i].ctx = c,
                            ![i].args = in.args, ![i].kwargs = in.kwargs]
  /\ UNCHANGED <<hasNamed, pool, index, indexBuilds, process_pool,
                 contexts, ctor, evictions, ld, ga>>

\* Lines 78-79: the index is consulted only with a named pool and no proxy
\* among the arguments.
ShouldProbe(args, kwargs) ==
  hasNamed /\ ~_contains_proxies(args, kwargs)

\* Line 100: the one exception class the dispatcher catches.
SwallowsNothing(kind) == FALSE

Swallowed(kind) == kind = "KeyError"

\* Lines 98-101 for the outcome r of _load_cache: return the outputs, or
\* pass on a KeyError, or let anything else propagate.
AfterLoadFallThrough(c, r) ==
  IF r.kind = "ok"
  THEN [c EXCEPT !.pc = "miss", !.probed = TRUE, !.cache = "ok",
                 !.result = r.outputs, !.hits = 1]
  ELSE IF Swallowed(r.kind)
  THEN [c EXCEPT !.pc = "miss", !.probed = TRUE, !.cache = r.kind, !.at = r.at]
  ELSE [c EXCEPT !.pc = "raised", !.probed = TRUE, !.cache = r.kind,
                 !.at = r.at, !.error = r.kind]

AfterLoad(c, r) ==
  IF r.kind = "ok"
  THEN [c EXCEPT !.pc = "hit", !.probed = TRUE, !.cache = "ok",
                 !.result = r.outputs, !.hits = 1]
  ELSE IF Swallowed(r.kind)
  THEN [c EXCEPT !.pc = "miss", !.probed = TRUE, !.cache = r.kind, !.at = r.at]
  ELSE [c EXCEPT !.pc = "raised", !.probed = TRUE, !.cache = r.kind,
                 !.at = r.at, !.error = r.kind]

\* Lines 78-101, the body of the `with` for call record c; `orders` is the
\* iteration order of the cached collections that _load_cache meets.
WithBody(c, orders) ==
  IF ShouldProbe(c.args, c.kwargs)
  THEN IF ~CollateOk(Params, c.args, c.kwargs)
       THEN [c EXCEPT !.pc = "raised", !.error = "TypeError"]
       ELSE LET invocation == InvocationOf(Params, c.args, c.kwargs)
            IN IF invocation \in DOMAIN index
               THEN AfterLoad(c, _load_cache(index[invocation], pool, orders))
               ELSE [c EXCEPT !.pc = "miss", !.probed = TRUE]
  ELSE [c EXCEPT !.pc = "miss"]

\* The iteration orders the record of call record c can be read in.
OrdersFor(c) ==
  IF /\ CollateOk(Params, c.args, c.kwargs)
     /\ InvocationOf(Params, c.args, c.kwargs) \in DOMAIN index
  THEN KeyOrders(index[InvocationOf(Params, c.args, c.kwargs)])
  ELSE {<<>>}

\* A record that holds every declared output, each collection complete
\* (one total n, n descriptors, positions 0..n-1) and every referenced
\* resource still stored.
Complete(D) ==
  /\ \A d \in D : d.total = Cardinality(D)
  /\ {d.idx : d \in D} = 0..(Cardinality(D) - 1)

IntactRecord(rec, stored) ==
  /\ \A n \in DOMAIN Outputs : Outputs[n] \in DOMAIN rec
  /\ \A o \in DOMAIN rec :
       IF is_collection_type(o)
       THEN Complete(DOMAIN rec[o]) /\ \A d \in DOMAIN rec[o] : rec[o][d] \in stored
       ELSE rec[o] \in stored

\* A proxy among the values a call supplies.
HasProxy(c) ==
  \E a \in Range(c.args) \cup values(c.kwargs) : a.proxy

\* Whether, as call record c enters the `with`, the index holds its
\* invocation with an intact record.
IntactAtProbe(c) ==
  /\ hasNamed
  /\ ~HasProxy(c)
  /\ CollateOk(Params, c.args, c.kwargs)
  /\ InvocationOf(Params, c.args, c.kwargs) \in DOMAIN index
  /\ IntactRecord(index[InvocationOf(Params, c.args, c.kwargs)], pool)

\* The `with` of lines 77-101: its body, and the release of the lock on
\* leaving it by return, by exception or by falling through.
ProbeInvalidatesStale(i) ==
  /\ calls[i].pc = "locked"
  /\ lock = <<"call", i>>
  /\ \E orders \in OrdersFor(calls[i]) :
       LET after == WithBody(calls[i], orders)
       IN /\ calls' = [calls EXCEPT ![i] =
                         [after EXCEPT !.intact = IntactAtProbe(calls[i])]]
          /\ index' = IF after.cache = "KeyError"
                       THEN [k \in DOMAIN index
                                    \ {InvocationOf(Params, calls[i].args,
                                                     calls[i].kwargs)} |-> index[k]]
                       ELSE index
  /\ lock' = Free
  /\ UNCHANGED <<hasNamed, pool, indexBuilds, process_pool, contexts,
                 ctor, evictions, ld, ga>>

ProbeKeepsLock(i) ==
  /\ calls[i].pc = "locked"
  /\ lock = <<"call", i>>
  /\ \E orders \in OrdersFor(calls[i]) :
       /\ calls' = [calls EXCEPT ![i] =
                      [WithBody(calls[i], orders) EXCEPT
                         !.intact = IntactAtProbe(calls[i])]]
       /\ lock' = IF WithBody(calls[i], orders).pc = "miss" THEN lock ELSE Free
  /\ UNCHANGED <<hasNamed, pool, index, indexBuilds, process_pool, contexts,
                 ctor, evictions, ld, ga>>

Probe(i) ==
  /\ calls[i].pc = "locked"
  /\ lock = <<"call", i>>
  /\ \E orders \in OrdersFor(calls[i]) :
       calls' = [calls EXCEPT ![i] =
                   [WithBody(calls[i], orders) EXCEPT
                      !.intact = IntactAtProbe(calls[i])]]
  /\ lock' = Free
  /\ UNCHANGED <<hasNamed, pool, index, indexBuilds, process_pool, contexts,
                 ctor, evictions, ld, ga>>

\* What _bind_parsl hands back at once: a future bound to the context given.
Future(c) == << <<"future", c>> >>

\* Lines 117-126: with parallel set the call goes to _bind_parsl with this
\* very context; otherwise to _bind, whose factory constructs a child of
\* this context when the bound callable starts.
ExecuteAlwaysLocal(i) ==
  /\ calls[i].pc = "miss"
  /\ contexts' = Append(contexts, NewContext(calls[i].ctx, FALSE))
  /\ calls' = [calls EXCEPT ![i].pc = "running",
                            ![i].execs = calls[i].execs + 1,
                            ![i].child = Len(contexts) + 1]
  /\ UNCHANGED <<hasNamed, pool, index, indexBuilds, process_pool, lock,
                 ctor, evictions, ld, ga>>

Execute(i) ==
  /\ calls[i].pc = "miss"
  /\ IF contexts[calls[i].ctx].parallel
     THEN /\ calls' = [calls EXCEPT ![i].pc = "parsl",
                                    ![i].execs = calls[i].execs + 1,
                                    ![i].bound = calls[i].ctx,
                                    ![i].result = Future(calls[i].ctx)]
          /\ UNCHANGED contexts
     ELSE /\ contexts' = Append(contexts, NewContext(calls[i].ctx, FALSE))
          /\ calls' = [calls EXCEPT ![i].pc = "running",
                                    ![i].execs = calls[i].execs + 1,
                                    ![i].child = Len(contexts) + 1]
  /\ UNCHANGED <<hasNamed, pool, index, indexBuilds, process_pool, lock,
                 ctor, evictions, ld, ga>>

\* ----------------------------------------------------------- registration
\* What the running action of call i registers next: its outputs one by
\* one in declared order, a collection as one reference holding its elements.
NextRef(i) ==
  LET a == ExecArtifacts(i, ResolvedInvocation(calls[i].args, calls[i].kwargs))
  IN { a[n] : n \in { m \in DOMAIN a : a[m].out = Outputs[calls[i].regs + 1] } }

CanRun(i) == CollateOk(Params, calls[i].args, calls[i].kwargs)

\* add_parent_reference, line 198: the child context of call i takes the
\* cache lock.
RegAcquireUnlocked(i) ==
  /\ calls[i].pc = "running"
  /\ CanRun(i)
  /\ calls[i].regs < Len(Outputs)
  /\ calls' = [calls EXCEPT ![i].pc = "registering"]
  /\ UNCHANGED <<hasNamed, pool, index, indexBuilds, process_pool, lock,
                 contexts, ctor, evictions, ld, ga>>

RegAcquire(i) ==
  /\ calls[i].pc = "running"
  /\ CanRun(i)
  /\ calls[i].regs < Len(Outputs)
  /\ lock = Free
  /\ lock' = <<"call", i>>
  /\ calls' = [calls EXCEPT ![i].pc = "registering"]
  /\ UNCHANGED <<hasNamed, pool, index, indexBuilds, process_pool, contexts,
                 ctor, evictions, ld, ga>>

\* process_pool.save(ref) (line 199): the pool holds the resource and hands
\* back a handle to it.
ProcessPoolDrop(saved, ref) == saved

ProcessPoolSave(saved, ref) == saved \cup ref

\* What process_pool.save(ref) returns: a reference to the same resources,
\* now held by the process pool.
NewRef(ref) == Ref(ref.resources, "process_pool")

\* Lines 201-202: the handle goes into the named pool when there is one.
NamedPoolSave(stored, new_ref) ==
  IF hasNamed THEN stored \cup new_ref.resources ELSE stored

\* Lines 199-205, and the release of the lock.  `named_saved` is what
\* named_pool.save was called with, `new_ref` what the method returned.
RegSaveOriginalRef(i) ==
  LET ref == Ref(NextRef(i), "action")
  IN /\ calls[i].pc = "registering"
     /\ lock = <<"call", i>>
     /\ process_pool' = ProcessPoolSave(process_pool, ref.resources)
     /\ pool' = NamedPoolSave(pool, ref)
     /\ lock' = Free
     /\ calls' = [calls EXCEPT ![i].pc = "running",
                               ![i].regs = calls[i].regs + 1,
                               ![i].named_saved = IF hasNamed THEN ref ELSE NoRef,
                               ![i].new_ref = NewRef(ref)]
     /\ UNCHANGED <<hasNamed, index, indexBuilds, contexts, ctor, evictions,
                    ld, ga>>

RegSave(i) ==
  LET ref == Ref(NextRef(i), "action")
      new_ref == NewRef(ref)
  IN /\ calls[i].pc = "registering"
     /\ lock = <<"call", i>>
     /\ process_pool' = ProcessPoolSave(process_pool, ref.resources)
     /\ pool' = NamedPoolSave(pool, new_ref)
     /\ lock' = Free
     /\ calls' = [calls EXCEPT ![i].pc = "running",
                               ![i].regs = calls[i].regs + 1,
                               ![i].named_saved = IF hasNamed THEN new_ref ELSE NoRef,
                               ![i].new_ref = new_ref]
     /\ UNCHANGED <<hasNamed, index, indexBuilds, contexts, ctor, evictions,
                    ld, ga>>

\* A save raises (lines 199 or 202, the second only with a named pool): the
\* `with` releases the lock and the error leaves add_parent_reference into
\* the running action, which fails.  What the process pool saved before
\* the named pool's save failed stays saved.
RegSaveFailsHoldingLock(i, at) ==
  LET ref == Ref(NextRef(i), "action")
  IN /\ calls[i].pc = "registering"
     /\ lock = <<"call", i>>
     /\ Ops < MaxOps
     /\ at = "named_pool" => hasNamed
     /\ process_pool' = IF at = "named_pool"
                        THEN ProcessPoolSave(process_pool, ref.resources)
                        ELSE process_pool
     /\ calls' = [calls EXCEPT ![i].pc = "failed", ![i].error = "SaveError",
                               ![i].named_saved = IF at = "named_pool"
                                                  THEN NewRef(ref) ELSE NoRef]
     /\ UNCHANGED <<hasNamed, pool, index, indexBuilds, lock, contexts, ctor,
                    evictions, ld, ga>>

RegSaveFails(i, at) ==
  LET ref == Ref(NextRef(i), "action")
  IN /\ calls[i].pc = "registering"
     /\ lock = <<"call", i>>
     /\ Ops < MaxOps
     /\ at = "named_pool" => hasNamed
     /\ process_pool' = IF at = "named_pool"
                        THEN ProcessPoolSave(process_pool, ref.resources)
                        ELSE process_pool
     /\ lock' = Free
     /\ calls' = [calls EXCEPT ![i].pc = "failed", ![i].error = "SaveError",
                               ![i].named_saved = IF at = "named_pool"
                                                  THEN NewRef(ref) ELSE NoRef]
     /\ UNCHANGED <<hasNamed, pool, index, indexBuilds, contexts, ctor,
                    evictions, ld, ga>>

\* The Results an execution returns: its outputs by name, the collection in
\* the order the action built it.
ExecResults(r, inv) ==
  LET a == ExecArtifacts(r, inv)
  IN << <<"o1", a[1]>>,
        <<"o2", << <<a[2].elem.item_name, a[2]>>, <<a[3].elem.item_name, a[3]>> >> >> >>

\* The bound callable returns: every output is registered, the child's scope
\* ends and the caller gets the results.
ExecReturn(i) ==
  /\ calls[i].pc = "running"
  /\ CanRun(i)
  /\ calls[i].regs = Len(Outputs)
  /\ calls' = [calls EXCEPT ![i].pc = "returned",
                 ![i].result = ExecResults(i, ResolvedInvocation(calls[i].args,
                                                                 calls[i].kwargs))]
  /\ UNCHANGED <<hasNamed, pool, index, indexBuilds, process_pool, lock,
                 contexts, ctor, evictions, ld, ga>>

\* The bound callable raises, at any point of the execution: the error
\* reaches the caller and the child's scope ends.
ExecFail(i) ==
  /\ calls[i].pc = "running"
  /\ calls' = [calls EXCEPT ![i].pc = "failed", ![i].error = "ExecutionError"]
  /\ UNCHANGED <<hasNamed, pool, index, indexBuilds, process_pool, lock,
                 contexts, ctor, evictions, ld, ga>>

\* ------------------------------------------------------------ environment
\* A resource of the named pool is destroyed out of band (the comment at
\* lines 95-97), before or after the pool was indexed.
Evict(a) ==
  /\ evictions < MaxEvict
  /\ Ops < MaxOps
  /\ a \in pool
  /\ pool' = pool \ {a}
  /\ evictions' = evictions + 1
  /\ UNCHANGED <<hasNamed, index, indexBuilds, process_pool, lock, contexts,
                 ctor, calls, ld, ga>>

Next ==
  \/ \E parallel \in BOOLEAN : BeginRoot(parallel)
  \/ FinishRoot
  \/ FinishRootFails
  \/ \E parent \in DOMAIN contexts, parallel \in BOOLEAN :
       ConstructChild(parent, parallel)
  \/ \E i \in Slots, c \in DOMAIN contexts, in \in CallInputs : Invoke(i, c, in)
  \/ \E i \in Slots : Probe(i)
  \/ \E i \in Slots : Execute(i)
  \/ \E i \in Slots : RegAcquire(i)
  \/ \E i \in Slots : RegSave(i)
  \/ \E i \in Slots, at \in {"process_pool", "named_pool"} : RegSaveFails(i, at)
  \/ \E i \in Slots : ExecReturn(i)
  \/ \E i \in Slots : ExecFail(i)
  \/ \E a \in pool : Evict(a)

Spec == Init /\ [][Next]_vars

\* A thread inside a `with self.cache.lock` block goes on running: the body
\* ends, by its last statement, by return or by an exception.
Fairness ==
  /\ WF_vars(FinishRoot \/ FinishRootFails)
  /\ \A i \in Slots :
       /\ WF_vars(Probe(i))
       /\ WF_vars(RegSave(i)
                  \/ \E at \in {"process_pool", "named_pool"} : RegSaveFails(i, at))

\* The steps that stay within the smaller number of operations.
LiveNext == Next /\ Ops' <= MaxLiveOps

FairSpec == Init /\ [][LiveNext]_vars /\ Fairness

\* ------------------------------------------------ the reconstructor alone
\* _load_cache applied to one cached record whose collection o2 holds any
\* set of descriptors with distinct item names (the names are the keys of
\* the collection that was saved), totals in 1..MaxTotal and positions below
\* MaxTotal, iterated in any order; every referenced resource is stored.
ItemNames == {"a", "b", "c"}

DescriptorSets ==
  { { Descriptor(n, f[n][1], f[n][2]) : n \in DOMAIN f } :
      f \in UNION { [N -> (0..(MaxTotal - 1)) \X (1..MaxTotal)] :
                      N \in SUBSET ItemNames \ {{}} } }

ElemArtifact(d) == Artifact(0, PriorInvocation, "o2", d)

RecordOf(D) ==
  [o \in {"o1", "o2"} |->
     IF o = "o1" THEN Artifact(0, PriorInvocation, "o1", NoElem)
     ELSE [d \in D |-> ElemArtifact(d)]]

StoredOf(D) ==
  {Artifact(0, PriorInvocation, "o1", NoElem)} \cup {ElemArtifact(d) : d \in D}

LoadInit ==
  /\ hasNamed = TRUE
  /\ pool = {}
  /\ index = <<>>
  /\ indexBuilds = 0
  /\ process_pool = {}
  /\ lock = Free
  /\ contexts = <<>>
  /\ ctor = NoCtor
  /\ calls = [i \in Slots |->
               [pc |-> "idle", ctx |-> 0, args |-> <<>>, kwargs |-> <<>>,
                probed |-> FALSE, intact |-> FALSE, cache |-> "none", at |-> "",
                result |-> <<>>, error |-> "", hits |-> 0, execs |-> 0,
                child |-> 0, bound |-> 0, regs |-> 0,
                named_saved |-> NoRef, new_ref |-> NoRef]]
  /\ evictions = 0
  /\ ga = NoGet
  /\ \E D \in DescriptorSets :
       \E orders \in KeyOrders(RecordOf(D)) :
         ld = [phase |-> "in", record |-> RecordOf(D), present |-> StoredOf(D),
               orders |-> orders, out |-> Raised("", "", <<>>)]

LoadStep ==
  /\ ld.phase = "in"
  /\ ld' = [ld EXCEPT !.phase = "done",
                      !.out = _load_cache(ld.record, ld.present, ld.orders)]
  /\ UNCHANGED <<hasNamed, pool, index, indexBuilds, process_pool, lock,
                 contexts, ctor, calls, evictions, ga>>

LoadNext == LoadStep

SpecLoad == LoadInit /\ [][LoadNext]_vars

\* --------------------------------------------------- get_action on its own
\* PluginManager().plugins: the registered plugins, each with its actions,
\* every action with its declared parameters in declaration order.
Plugins ==
  [n \in {<<"p", "-", "q">>, <<"r">>} |->
     IF n = <<"r">>
     THEN [a \in {<<"a">>} |-> <<"y", "x">>]
     ELSE [a \in {<<"a">>, <<"b">>} |-> <<"x", "y">>]]

\* The names get_action is asked for.
PluginNames == {<<"p", "_", "q">>, <<"p", "-", "q">>, <<"r">>, <<"z">>}

ActionNames == {<<"a">>, <<"b">>}

\* The calls made of a handle: up to MaxArgs arguments over the parameter
\* names x and y, positional or by keyword, the keywords in either order.
MaxArgs == 2

KeyValues == {Concrete(1), Concrete(2)}

KwItems ==
  {<<>>}
    \cup {<< <<n, v>> >> : n \in {"x", "y"}, v \in KeyValues}
    \cup {<< <<n[1], v[1]>>, <<n[2], v[2]>> >> :
            n \in {<<"x", "y">>, <<"y", "x">>}, v \in KeyValues \X KeyValues}

Requests ==
  { r \in [plugin : PluginNames, action : ActionNames,
           args : UNION {[1..k -> KeyValues] : k \in 0..MaxArgs},
           kwargs : KwItems] :
      Len(r.args) + Len(r.kwargs) <= MaxArgs }

\* get_action, lines 48-62 and 128-131: the handle for plugin_action, or a
\* ValueError when the plugin or the action is not registered.
Handle(error, name, params) ==
  [error |-> error, plugin_action |-> name, params |-> params]

GetActionAsGiven(plugin, action) ==
  IF plugin \notin DOMAIN Plugins
  THEN Handle("ValueError", <<>>, <<>>)
  ELSE IF action \notin DOMAIN Plugins[plugin]
  THEN Handle("ValueError", <<>>, <<>>)
  ELSE Handle("", PluginAction(plugin, action), Plugins[plugin][action])

get_action(plugin, action) ==
  IF replace(plugin) \notin DOMAIN Plugins
  THEN Handle("ValueError", <<>>, <<>>)
  ELSE IF action \notin DOMAIN Plugins[replace(plugin)]
  THEN Handle("ValueError", <<>>, <<>>)
  ELSE Handle("", PluginAction(plugin, action), Plugins[replace(plugin)][action])

\* deferred_action up to line 93 for a handle h, with a named pool: the
\* invocation key, or the TypeError of the collation.
KeyOf(h, r) ==
  IF h.error # "" THEN [kind |-> "no handle", key |-> <<>>]
  ELSE IF ~CollateOk(h.params, r.args, r.kwargs)
  THEN [kind |-> "TypeError", key |-> <<>>]
  ELSE [kind |-> "key",
        key |-> InvocationFor(h.plugin_action, h.params, r.args, r.kwargs)]

KeyInit ==
  /\ hasNamed = TRUE
  /\ pool = {}
  /\ index = <<>>
  /\ indexBuilds = 0
  /\ process_pool = {}
  /\ lock = Free
  /\ contexts = <<>>
  /\ ctor = NoCtor
  /\ calls = [i \in Slots |->
               [pc |-> "idle", ctx |-> 0, args |-> <<>>, kwargs |-> <<>>,
                probed |-> FALSE, intact |-> FALSE, cache |-> "none", at |-> "",
                result |-> <<>>, error |-> "", hits |-> 0, execs |-> 0,
                child |-> 0, bound |-> 0, regs |-> 0,
                named_saved |-> NoRef, new_ref |-> NoRef]]
  /\ evictions = 0
  /\ ld = NoLoad
  /\ \E r1 \in Requests, r2 \in Requests :
       ga = [phase |-> "in", reqs |-> <<r1, r2>>, handles |-> <<>>, keys |-> <<>>]

\* get_action is called for both requests.
GetActions ==
  /\ ga.phase = "in"
  /\ ga' = [ga EXCEPT !.phase = "resolved",
                      !.handles = [i \in 1..2 |->
                                     get_action(ga.reqs[i].plugin, ga.reqs[i].action)]]
  /\ UNCHANGED <<hasNamed, pool, index, indexBuilds, process_pool, lock,
                 contexts, ctor, calls, evictions, ld>>

\* Each handle that was returned is called with its request's arguments.
CallHandles ==
  /\ ga.phase = "resolved"
  /\ ga' = [ga EXCEPT !.phase = "done",
                      !.keys = [i \in 1..2 |-> KeyOf(ga.handles[i], ga.reqs[i])]]
  /\ UNCHANGED <<hasNamed, pool, index, indexBuilds, process_pool, lock,
                 contexts, ctor, calls, evictions, ld>>

KeyNext == GetActions \/ CallHandles

SpecKey == KeyInit /\ [][KeyNext]_vars

\* ================================================================ claims
Finished(i) == calls[i].pc \in {"hit", "raised", "parsl", "returned", "failed"}

PastProbe(i) == calls[i].pc \notin {"idle", "locked"}

RECURSIVE RootOf(_)
RootOf(c) == IF contexts[c].parent = 0 THEN c ELSE RootOf(contexts[c].parent)

\* The resources of a Results value.
ResourcesOf(res) ==
  UNION { IF is_collection_type(res[n][1])
          THEN {res[n][2][m][2] : m \in DOMAIN res[n][2]}
          ELSE {res[n][2]} : n \in DOMAIN res }

\* Two invocations of the handle with the same proxy-free arguments against
\* an active named pool.
SameArgs(i, j) ==
  /\ hasNamed
  /\ calls[i].pc # "idle" /\ calls[j].pc # "idle"
  /\ calls[i].args = calls[j].args
  /\ calls[i].kwargs = calls[j].kwargs
  /\ ~HasProxy(calls[i])

\* ... made in one context tree.
SameCall(i, j) ==
  SameArgs(i, j) /\ RootOf(calls[i].ctx) = RootOf(calls[j].ctx)

\* Outputs by value: every resource replaced by what it holds.
ValuesOf(res) ==
  [n \in DOMAIN res |->
     <<res[n][1],
       IF is_collection_type(res[n][1])
       THEN [m \in DOMAIN res[n][2] |->
               <<res[n][2][m][1], ValueOf(res[n][2][m][2])>>]
       ELSE ValueOf(res[n][2])>>]

C2_ExactlyOneOutcome ==
  \A i \in Slots : Finished(i) => calls[i].hits + calls[i].execs = 1

\* C2 as amended: no invocation results in both a cache-hit return and an
\* execution; one that has ended resulted in exactly one of them unless it
\* failed inside the probe (input collation or a corrupt collection), and
\* then in neither.
C2_OneOutcomeUnlessProbeRaises ==
  \A i \in Slots :
    /\ calls[i].hits + calls[i].execs <= 1
    /\ Finished(i) =>
         IF calls[i].pc = "raised"
         THEN /\ calls[i].hits = 0 /\ calls[i].execs = 0
              /\ calls[i].error \in {"TypeError", "AssertionError"}
         ELSE calls[i].hits + calls[i].execs = 1

C2_Witness ==
  /\ \E i \in Slots : calls[i].pc = "hit" /\ calls[i].hits = 1
  /\ \E i \in Slots : calls[i].pc = "returned" /\ calls[i].execs = 1

\* C3: an invocation with a proxy among its positional or keyword arguments
\* never reads the index and never attempts reconstruction; it leaves the
\* probe only towards execution.
C3_ProxyShortCircuit ==
  \A i \in Slots :
    (calls[i].pc # "idle" /\ HasProxy(calls[i]))
    => /\ ~calls[i].probed
       /\ calls[i].cache = "none"
       /\ calls[i].hits = 0
       /\ calls[i].pc \notin {"hit", "raised"}
       /\ Finished(i) => calls[i].execs = 1

\* A keyword proxy whose resolved call is indexed, and the action executed.
C3_Witness ==
  \E i \in Slots :
    /\ hasNamed
    /\ \E k \in DOMAIN calls[i].kwargs : calls[i].kwargs[k][2].proxy
    /\ ResolvedInvocation(calls[i].args, calls[i].kwargs) \in DOMAIN index
    /\ calls[i].pc = "returned"
    /\ ~calls[i].probed

\* C4: when the invocation is indexed but a load of a referenced resource
\* raises KeyError, no error of the probe reaches the caller (only one of
\* the execution can) and the action is executed as on a miss: the call
\* returns the execution's outputs (or _bind_parsl's future), nothing that
\* the reconstruction had loaded.
C4_StaleIndexMiss ==
  \A i \in Slots :
    (calls[i].cache = "KeyError" /\ calls[i].at = "load")
    => /\ calls[i].pc \in {"miss", "running", "registering", "parsl",
                           "returned", "failed"}
       /\ calls[i].error \in {"", "ExecutionError", "SaveError"}
       /\ calls[i].hits = 0
       /\ calls[i].pc \in {"miss", "running", "registering", "failed"}
            => calls[i].result = <<>>
       /\ calls[i].pc = "parsl" => calls[i].result = Future(calls[i].ctx)
       /\ calls[i].pc = "returned"
            => calls[i].result =
                 ExecResults(i, InvocationOf(Params, calls[i].args, calls[i].kwargs))
       /\ Finished(i) => calls[i].execs = 1

\* The scalar o1 loaded, an element of o2 gone, and the execution returned.
C4_Witness ==
  \E i \in Slots :
    /\ calls[i].cache = "KeyError" /\ calls[i].at = "load"
    /\ calls[i].pc = "returned"
    /\ calls[i].execs = 1

\* C5 as stated: a failure of the reconstruction other than a load whose
\* backing storage is missing reaches the caller and is not turned into a
\* cache miss.
C5_OnlyMissingStorageSwallowed ==
  \A i \in Slots :
    (/\ calls[i].cache \notin {"none", "ok"}
     /\ ~(calls[i].cache = "KeyError" /\ calls[i].at = "load"))
    => /\ calls[i].pc = "raised"
       /\ calls[i].error = calls[i].cache
       /\ calls[i].execs = 0

\* A set of descriptors that breaks collection completeness: two declared
\* totals, or a number of descriptors other than the declared total.
Violates(D) ==
  \/ \E d, e \in D : d.total # e.total
  \/ \E d \in D : Cardinality(D) # d.total

LoadedSet == DOMAIN ld.record["o2"]

\* C6: reconstructing a collection whose descriptors disagree on the total
\* or whose number differs from it fails with the assertion of
\* _validate_collection before any element of the collection is loaded, and
\* returns no collection.
C6_CompletenessViolation ==
  (ld.phase = "done" /\ Violates(LoadedSet))
  => /\ ld.out.kind = "AssertionError"
     /\ ld.out.outputs = <<>>
     /\ \A n \in DOMAIN ld.out.loads : ld.out.loads[n].out # "o2"

\* Two descriptors that both declare total 3.
C6_Witness ==
  /\ ld.phase = "done"
  /\ Cardinality(LoadedSet) = 2
  /\ \A d \in LoadedSet : d.total = 3
  /\ ld.out.kind = "AssertionError"
  /\ Len(ld.out.loads) = 1

\* C7: for a complete collection record (total n, positions 0..n-1) the
\* reconstructed collection holds, at place i+1, the element of position i
\* under its descriptor's item name, whatever order the descriptors were
\* iterated in.
C7_PositionOrder ==
  (ld.phase = "done" /\ Complete(LoadedSet))
  => /\ ld.out.kind = "ok"
     /\ ld.out.outputs[2][1] = "o2"
     /\ Len(ld.out.outputs[2][2]) = Cardinality(LoadedSet)
     /\ \A d \in LoadedSet :
          ld.out.outputs[2][2][d.idx + 1] = <<d.item_name, ld.record["o2"][d]>>

\* Three elements iterated from the last position to the first.
C7_Witness ==
  /\ ld.phase = "done"
  /\ Complete(LoadedSet)
  /\ Cardinality(LoadedSet) = 3
  /\ \A n \in 1..3 : ld.orders["o2"][n].idx = 3 - n
  /\ ld.out.kind = "ok"

\* C8: the step in which an invocation gets its cache hit creates no context
\* and saves nothing into either pool; what it returns was loaded from the
\* named pool; and an invocation that got a hit has ended with it: no _bind
\* or _bind_parsl, no child context, nothing registered.
C8_HitLeavesStateUntouched ==
  [][\A i \in Slots :
       /\ (calls[i].hits = 0 /\ calls'[i].hits = 1)
          => /\ contexts' = contexts
             /\ process_pool' = process_pool
             /\ pool' = pool
             /\ ResourcesOf(calls'[i].result) \subseteq pool
       /\ calls'[i].hits = 1
          => /\ calls'[i].pc = "hit"
             /\ calls'[i].execs = 0
             /\ calls'[i].bound = 0
             /\ calls'[i].child = 0
             /\ calls'[i].regs = 0]_vars

C8_Witness ==
  \E i \in Slots :
    /\ calls[i].pc = "hit"
    /\ Len(calls[i].result) = Len(Outputs)
    /\ process_pool = {}
    /\ Len(contexts) = 1

\* What the child context of call i has registered so far.
RegisteredBy(i) ==
  IF calls[i].regs = 0 THEN {}
  ELSE LET a == ExecArtifacts(i, ResolvedInvocation(calls[i].args, calls[i].kwargs))
       IN { a[n] : n \in { m \in DOMAIN a :
                             \E k \in 1..calls[i].regs : a[m].out = Outputs[k] } }

C10_IndexBuiltAtMostOnce == indexBuilds <= 1

InCriticalSection ==
  (IF ctor.active THEN {<<"root", 0>>} ELSE {})
    \cup {<<"call", i>> : i \in {j \in Slots : calls[j].pc \in {"locked", "registering"}}}

\* C12 (mutual exclusion): at most one of root index construction, cache
\* probe with reconstruction and reference registration is in progress at
\* any time, the one in progress holds the cache lock, and a step of the
\* program that rebuilds the index or saves into a pool is taken by the
\* holder of the lock, which releases it with that step.
C12_MutualExclusion ==
  /\ [](/\ Cardinality(InCriticalSection) <= 1
        /\ \A h \in InCriticalSection : lock = h)
  /\ [][(\/ index' # index
         \/ indexBuilds' # indexBuilds
         \/ process_pool' # process_pool
         \/ ~(pool' \subseteq pool))
        => (lock \in InCriticalSection /\ lock' = Free)]_vars

\* Two executions under way at once, one of them inside its registration
\* and holding the lock the other needs for its own.
C12_Witness ==
  /\ calls[1].pc = "registering"
  /\ lock = <<"call", 1>>
  /\ calls[2].pc = "running"
  /\ calls[2].regs < Len(Outputs)

BoundValue(r, params, n) ==
  IF n <= Len(r.args) THEN r.args[n] ELSE Get(r.kwargs, params[n])

\* What request r binds to the parameter called name.
Binding(r, name) ==
  LET params == Plugins[replace(r.plugin)][r.action]
  IN BoundValue(r, params, CHOOSE n \in DOMAIN params : params[n] = name)

\* C14 (key equivalence): the key of a call is the qualified name
\* 'plugin:action' paired with the single-key bindings in the declared
\* order of the action's parameters; and the keys of two calls are equal
\* exactly when the calls are of the same action and bind every parameter
\* to the same value, however the arguments were supplied.
C14_KeyEquivalence ==
  ga.phase = "done" =>
    \A i \in 1..2 : \A j \in 1..2 :
      (ga.keys[i].kind = "key" /\ ga.keys[j].kind = "key") =>
        LET ri == ga.reqs[i]
            rj == ga.reqs[j]
            params == Plugins[replace(ri.plugin)][ri.action]
        IN /\ ga.keys[i].key =
                << replace(ri.plugin) \o <<":">> \o ri.action,
                   [n \in DOMAIN params |-> <<params[n], BoundValue(ri, params, n)>>] >>
           /\ (ga.keys[i].key = ga.keys[j].key) <=>
                (/\ replace(ri.plugin) = replace(rj.plugin)
                 /\ ri.action = rj.action
                 /\ \A name \in {"x", "y"} : Binding(ri, name) = Binding(rj, name))

\* The same action called once positionally and once by keywords written
\* in the reverse of the declared order: one key.
C14_Witness ==
  /\ ga.phase = "done"
  /\ ga.keys[1].kind = "key"
  /\ ga.keys[2].kind = "key"
  /\ ga.keys[1].key = ga.keys[2].key
  /\ Len(ga.reqs[1].args) = 2
  /\ Len(ga.reqs[2].kwargs) = 2
  /\ ga.reqs[2].kwargs[1][1] = "y"
  /\ ga.reqs[1].plugin = <<"p", "_", "q">>
  /\ ga.reqs[2].plugin = <<"p", "-", "q">>
  /\ ga.reqs[1].args[1] # ga.reqs[1].args[2]

\* Whether the registry holds the action a request names.
Registered(r) ==
  /\ replace(r.plugin) \in DOMAIN Plugins
  /\ r.action \in DOMAIN Plugins[replace(r.plugin)]

\* C15 (resolution error): get_action raises its not-found error exactly
\* when the plugin name with '_' replaced by '-' is not registered or the
\* action is not registered in that plugin, and then returns no handle;
\* otherwise it returns the handle of that action.  The error is raised by
\* get_action itself, before any handle is called, the dispatcher has not
\* run when get_action returns, and get_action changes nothing of the
\* pools, the index, the lock or the contexts.
C15_ResolutionError ==
  /\ [](ga.phase \in {"resolved", "done"} =>
          \A i \in 1..2 :
            /\ (ga.handles[i].error = "ValueError") <=> ~Registered(ga.reqs[i])
            /\ ~Registered(ga.reqs[i]) =>
                 /\ ga.handles[i].plugin_action = <<>>
                 /\ ga.phase = "done" => ga.keys[i].kind = "no handle"
            /\ Registered(ga.reqs[i]) =>
                 /\ ga.handles[i].error = ""
                 /\ ga.handles[i].plugin_action =
                      replace(ga.reqs[i].plugin) \o <<":">> \o ga.reqs[i].action
            /\ ga.phase = "resolved" => ga.keys = <<>>)
  /\ [][ga.phase = "in" =>
          UNCHANGED <<hasNamed, pool, index, indexBuilds, process_pool, lock,
                      contexts, ctor, calls>>]_vars

\* get_action has failed for an action its plugin does not have and has
\* returned a handle for a plugin name written with '_'.
C15_Witness ==
  /\ ga.phase = "resolved"
  /\ ga.handles[1].error = "ValueError"
  /\ ga.reqs[1].plugin = <<"r">>
  /\ ga.reqs[1].action = <<"b">>
  /\ ga.handles[2].error = ""
  /\ ga.reqs[2].plugin = <<"p", "_", "q">>

\* C16 (dispatch mode on a miss): the step that leaves the probe for the
\* execution hands the call to _bind_parsl with the dispatching context
\* itself and constructs no context when that context is parallel, and
\* otherwise constructs one new context whose parent is the dispatching
\* context; each invocation executed locally has a child of its own.
C16_DispatchMode ==
  /\ [][\A i \in Slots :
          (calls[i].pc = "miss" /\ calls'[i].pc # "miss") =>
            IF contexts[calls[i].ctx].parallel
            THEN /\ calls'[i].pc = "parsl"
                 /\ calls'[i].bound = calls[i].ctx
                 /\ calls'[i].child = 0
                 /\ contexts' = contexts
            ELSE /\ calls'[i].pc = "running"
                 /\ calls'[i].bound = 0
                 /\ contexts' = Append(contexts, contexts'[Len(contexts')])
                 /\ calls'[i].child = Len(contexts')
                 /\ contexts'[calls'[i].child].parent = calls[i].ctx]_vars
  /\ [](\A i \in Slots : \A j \in Slots :
          (i # j /\ calls[i].child # 0) => calls[i].child # calls[j].child)

\* One call executing locally under a child of its root and another handed
\* to _bind_parsl with its parallel root, between them the only child.
C16_Witness ==
  /\ calls[1].pc = "running"
  /\ calls[1].child # 0
  /\ contexts[calls[1].child].parent = calls[1].ctx
  /\ calls[2].pc = "parsl"
  /\ calls[2].bound = calls[2].ctx
  /\ contexts[calls[2].ctx].parallel
  /\ Cardinality({c \in DOMAIN contexts : contexts[c].parent # 0}) = 1

\* C17 (reference registration): a completed add_parent_reference held
\* the cache lock and released it, put the reference into the process pool,
\* returned the handle the process pool gave, and with a named pool gave
\* exactly that handle (not the reference it was called with) to the named
\* pool's save, without a named pool leaving everything but the process
\* pool as it was; and the named pool's save is never reached before the
\* process pool has saved.
C17_Registration ==
  [][\A i \in Slots :
       /\ (calls[i].pc = "registering" /\ calls'[i].pc = "running") =>
            /\ lock = <<"call", i>>
            /\ lock' = Free
            /\ process_pool' = process_pool \cup NextRef(i)
            /\ calls'[i].new_ref = Ref(NextRef(i), "process_pool")
            /\ index' = index
            /\ IF hasNamed
               THEN /\ pool' = pool \cup NextRef(i)
                    /\ calls'[i].named_saved = calls'[i].new_ref
               ELSE /\ pool' = pool
                    /\ calls'[i].named_saved = NoRef
       /\ (/\ calls[i].pc = "registering"
           /\ calls'[i].pc # "registering"
           /\ calls'[i].named_saved # NoRef) =>
            /\ hasNamed
            /\ NextRef(i) \subseteq process_pool']_vars

\* An execution has registered its first output with a named pool active:
\* both pools hold it, and the named pool was given the process pool's
\* handle.
C17_Witness ==
  \E i \in Slots :
    /\ hasNamed
    /\ calls[i].pc = "running"
    /\ calls[i].regs = 1
    /\ calls[i].new_ref.holder = "process_pool"
    /\ calls[i].named_saved = calls[i].new_ref
    /\ calls[i].new_ref.resources # {}
    /\ calls[i].new_ref.resources \subseteq (process_pool \cap pool)
    /\ lock = Free

\* C18 (lock never held across execution): a dispatcher call that is past
\* its probe does not hold the cache lock on account of that probe: from
\* the miss on, while its action executes and after, the lock is free, or
\* held by another operation, or held by a registration the execution
\* itself is inside; the call that holds the lock for its probe has started
\* no execution and has no child; so whatever holds the lock is inside a
\* critical section of its own and not an enclosing dispatcher call.
C18_NoLockAcrossExecution ==
  \A i \in Slots :
    /\ calls[i].pc \in {"miss", "running", "parsl", "returned", "failed",
                        "hit", "raised"}
         => lock # <<"call", i>>
    /\ lock = <<"call", i>> => calls[i].pc \in {"locked", "registering"}
    /\ (lock = <<"call", i>> /\ calls[i].pc = "locked")
         => (calls[i].execs = 0 /\ calls[i].child = 0)

\* A nested dispatch: while the action of call 1 executes under its child
\* context, a handle is called on that child and holds the lock for its
\* probe.
C18_Witness ==
  /\ calls[1].pc = "running"
  /\ calls[1].child # 0
  /\ calls[2].ctx = calls[1].child
  /\ calls[2].pc = "locked"
  /\ lock = <<"call", 2>>

C20_IndexReadOnly ==
  [][/\ \A i \in Slots :
          (calls[i].pc = "locked" /\ calls'[i].pc # "locked") =>
            /\ index' = index
            /\ calls'[i].cache = "KeyError" =>
                 InvocationOf(Params, calls[i].args, calls[i].kwargs)
                   \in DOMAIN index'
     /\ index' # index => (ctor.active /\ ~ctor'.active)]_vars

\* Two invocations have one after the other met the same stale entry,
\* which is still in the index.
C20_Witness ==
  /\ calls[1].cache = "KeyError"
  /\ calls[1].at = "load"
  /\ calls[1].pc \notin {"idle", "locked", "miss"}
  /\ calls[2].cache = "KeyError"
  /\ calls[2].at = "load"
  /\ SameArgs(1, 2)
  /\ InvocationOf(Params, calls[2].args, calls[2].kwargs) \in DOMAIN index
  /\ indexBuilds = 1

====
